---- MODULE Spec2Model ----
(***************************************************************************)
(* A model of timewindow_viz.py: the command line of main (click options), *)
(* the Episode Loader (read_episodes_data), the Message Loader             *)
(* (read_sms_data), the Joiner (join_episode_data), the optional Pivot     *)
(* Dumper (pivot_dump) and the Aggregator (aggregate).                     *)
(*                                                                         *)
(* Representation.                                                         *)
(*  - A DataFrame is [columns |-> sequence of column names,                *)
(*    rows |-> sequence of rows]; a row is a function from column name to  *)
(*    cell, except in the Aggregator's result, whose column names repeat   *)
(*    and whose rows are therefore tuples aligned with `columns`.          *)
(*  - A text cell is a string; the missing text cell (an empty CSV field,  *)
(*    or the right side of an unmatched left-join row) is NaN.             *)
(*  - A date string is the tuple of its numeric fields, <<m, d, yy>> for   *)
(*    '%m/%d/%y' and <<Y, m, d>> for '%Y-%m-%d'; a datetime is its         *)
(*    proleptic Gregorian day number (time of day is always 00:00), the    *)
(*    missing datetime is NaT.                                             *)
(*  - A float cell is FloatNaN or <<numerator, denominator>>; a            *)
(*    standard deviation is represented by its square, the variance.       *)
(*  - An option that may be absent from the command line is <<>> when      *)
(*    absent (Python's None) and <<v>> when given.                         *)
(*  - An episode-type code is the sequence of its characters.              *)
(*  - An episode table without rows has the columns of one with rows;      *)
(*    a comparison with a missing datetime is False.                       *)
(*  - groupby returns its groups sorted by key; the model keeps the        *)
(*    groups of the two count tables as sets of rows (the order of their   *)
(*    text keys is not represented) and sorts the Aggregator's result by   *)
(*    relative_date.                                                       *)
(***************************************************************************)
EXTENDS Integers, Sequences, FiniteSets, TLC

VARIABLES
  pc,                \* position of the run in main
  type_code,         \* --episode-type as typed (<<>>: option absent)
  begin_day,         \* --begin-day (<<>>: option absent)
  end_day,           \* --end-day (<<>>: option absent)
  dump_participants, \* --dump-participants
  episodes_file,     \* rows of the episodes CSV file
  input_file,        \* rows of the SMS CSV file
  episode_type,      \* the normalised episode type ("" before parsing)
  episodes_data,     \* result of read_episodes_data
  sms_data,          \* result of read_sms_data
  data,              \* result of join_episode_data (main rebinds sms_data)
  deindexed,         \* pivot_dump: the grouped counts, flattened
  pivot,             \* pivot_dump: the wide table
  reset,             \* result of aggregate
  files,             \* the files written so far, in order: [name, table]
  error              \* the exception that ended the run: <<type, raising
                     \* function, details>>, <<>> when none

vars == <<pc, type_code, begin_day, end_day, dump_participants, episodes_file,
          input_file, episode_type, episodes_data, sms_data, data, deindexed,
          pivot, reset, files, error>>

----------------------------------------------------------------------------
(* Bounds of the model.                                                    *)

MaxEpisodes == 2     \* rows of the episodes file
MaxMessages == 2     \* rows of the SMS file
MaxDays == 1         \* --begin-day and --end-day of the option runs are
                     \* -MaxDays .. MaxDays

----------------------------------------------------------------------------
(* Cells.                                                                  *)

NaN == "NaN"      \* the missing text cell
NaT == 0          \* the missing datetime cell
FloatNaN == <<>>  \* the missing float cell
None == <<>>      \* an absent option

SeqUpTo(S, n) == UNION {[1..k -> S] : k \in 0..n}

Range(s) == {s[i] : i \in DOMAIN s}

EmptyFrame == [columns |-> <<>>, rows |-> <<>>]

----------------------------------------------------------------------------
(* datetime.strptime and datetime arithmetic.                              *)

is_leap(y) == y % 4 = 0 /\ (y % 100 # 0 \/ y % 400 = 0)

days_in_month(y, m) ==
  CASE m \in {4, 6, 9, 11} -> 30
    [] m = 2 -> IF is_leap(y) THEN 29 ELSE 28
    [] OTHER -> 31

days_before_year(y) ==
  LET p == y - 1 IN p * 365 + p \div 4 - p \div 100 + p \div 400

RECURSIVE days_before_month(_, _)
days_before_month(y, m) ==
  IF m = 1 THEN 0 ELSE days_before_month(y, m - 1) + days_in_month(y, m - 1)

\* date(y, m, d).toordinal()
ymd2ord(y, m, d) == days_before_year(y) + days_before_month(y, m) + d

valid_ymd(y, m, d) == m \in 1..12 /\ d >= 1 /\ d <= days_in_month(y, m)

\* %y: 69..99 are 1969..1999, 0..68 are 2000..2068
century(yy) == IF yy >= 69 THEN 1900 + yy ELSE 2000 + yy

\* datetime.strptime(x, '%m/%d/%y'): <<ok, day number>>
dt_converter(x) ==
  LET y == century(x[3]) IN
  IF x[3] \in 0..99 /\ valid_ymd(y, x[1], x[2])
  THEN [ok |-> TRUE, value |-> ymd2ord(y, x[1], x[2])]
  ELSE [ok |-> FALSE, value |-> NaT]

\* datetime.strptime(x, '%Y-%m-%d')
strptime_ymd(x) ==
  IF x[1] \in 1..9999 /\ valid_ymd(x[1], x[2], x[3])
  THEN [ok |-> TRUE, value |-> ymd2ord(x[1], x[2], x[3])]
  ELSE [ok |-> FALSE, value |-> NaT]

\* comparisons of datetime cells: any comparison with NaT is False
Ge(a, b) == a # NaT /\ b # NaT /\ a >= b
Le(a, b) == a # NaT /\ b # NaT /\ a <= b

----------------------------------------------------------------------------
(* norm_episode_type.                                                      *)

types == [a |-> "Attempt", i |-> "Ideation", d |-> "Depression",
          p |-> "Positive"]

\* str.lower() of one character
lower(c) ==
  CASE c = "A" -> "a" [] c = "I" -> "i" [] c = "D" -> "d" [] c = "P" -> "p"
    [] c = "X" -> "x" [] c = "T" -> "t" [] c = "E" -> "e"
    [] OTHER -> c

InvalidCodeMessage(code) == <<"Invalid episode type code: ", code>>

\* the lookup without lower(): upper-case codes are rejected
norm_episode_type_cs(code) ==
  IF Len(code) >= 1 /\ code[1] \in DOMAIN types
  THEN [ok |-> TRUE, value |-> types[code[1]], error |-> <<>>]
  ELSE [ok |-> FALSE, value |-> "", error |-> InvalidCodeMessage(code)]

\* types[type_code[0].lower()]; an IndexError (empty code) or a KeyError
\* (unknown letter) is re-raised as Exception('Invalid episode type code: '
\* + type_code)
norm_episode_type(code) ==
  IF Len(code) >= 1 /\ lower(code[1]) \in DOMAIN types
  THEN [ok |-> TRUE, value |-> types[lower(code[1])], error |-> <<>>]
  ELSE [ok |-> FALSE, value |-> "", error |-> InvalidCodeMessage(code)]

----------------------------------------------------------------------------
(* DataFrame operations.                                                   *)

DateTimeCols == {"comparison_date", "episode_date", "begin_date", "end_date"}
TextCols == {"participant", "time", "episode_type", "certainty",
             "episode_num", "participant_episode"}

\* pandas' isnull of the cell of column c
IsNull(c, v) ==
  IF c \in DateTimeCols THEN v = NaT
  ELSE IF c \in TextCols THEN v = NaN
  ELSE FALSE

\* the missing cell of column c
NullOf(c) == IF c \in DateTimeCols THEN NaT ELSE NaN

RECURSIVE Flatten(_)
Flatten(ss) == IF ss = <<>> THEN <<>> ELSE Head(ss) \o Flatten(Tail(ss))

RECURSIVE Sum(_, _)
Sum(f, S) ==
  IF S = {} THEN 0
  ELSE LET x == CHOOSE x \in S : TRUE IN f[x] + Sum(f, S \ {x})

RECURSIVE SortedSeq(_)
SortedSeq(S) ==
  IF S = {} THEN <<>>
  ELSE LET m == CHOOSE m \in S : \A x \in S : m <= x
       IN <<m>> \o SortedSeq(S \ {m})

WithoutCols(cols, drop) ==
  LET keep(c) == c \notin drop IN SelectSeq(cols, keep)

\* left.merge(right, how='left', on=(key,)) without the suffixes: a column
\* of both tables keeps its name and the right table's cell
merge_nosuffix(left, right, key) ==
  LET rcols == WithoutCols(right.columns, {key})
      joinrow(l, r) == [c \in Range(left.columns) \cup Range(rcols) |->
                          IF c \in Range(rcols) THEN r[c] ELSE l[c]]
      nullrow == [c \in Range(right.columns) |-> NullOf(c)]
      isMatch(l) == LET m(r) == r[key] = l[key] IN SelectSeq(right.rows, m)
      rowsFor(l) == LET ms == isMatch(l) IN
                    IF ms = <<>> THEN <<joinrow(l, nullrow)>>
                    ELSE [j \in DOMAIN ms |-> joinrow(l, ms[j])]
  IN [columns |-> left.columns \o
                  WithoutCols(rcols, Range(left.columns)),
      rows |-> Flatten([i \in DOMAIN left.rows |-> rowsFor(left.rows[i])])]

\* left.merge(right, how='left', on=(key,)) keeping only the first match
merge_first(left, right, key) ==
  LET rcols == WithoutCols(right.columns, {key})
      joinrow(l, r) == [c \in Range(left.columns) \cup Range(rcols) |->
                          IF c \in Range(rcols) THEN r[c] ELSE l[c]]
      nullrow == [c \in Range(right.columns) |-> NullOf(c)]
      isMatch(l) == LET m(r) == r[key] = l[key] IN SelectSeq(right.rows, m)
      rowsFor(l) == LET ms == isMatch(l) IN
                    IF ms = <<>> THEN <<joinrow(l, nullrow)>>
                    ELSE <<joinrow(l, ms[1])>>
  IN [columns |-> left.columns \o rcols,
      rows |-> Flatten([i \in DOMAIN left.rows |-> rowsFor(left.rows[i])])]

\* left.merge(right, how='left', on=(key,)): every left row, in order, once
\* per right row with the same key cell (in the right table's order), or
\* once with missing right cells when there is none; a column other than
\* the key that both tables have is renamed c_x (left) and c_y (right)
merge(left, right, key) ==
  LET overlap == (Range(left.columns) \cap Range(right.columns)) \ {key}
      lname(c) == IF c \in overlap THEN c \o "_x" ELSE c
      rname(c) == IF c \in overlap THEN c \o "_y" ELSE c
      rcols == WithoutCols(right.columns, {key})
      lnames == {lname(c) : c \in Range(left.columns)}
      rnames == {rname(c) : c \in Range(rcols)}
      joinrow(l, r) ==
        [n \in lnames \cup rnames |->
           IF n \in lnames
           THEN l[CHOOSE c \in Range(left.columns) : lname(c) = n]
           ELSE r[CHOOSE c \in Range(rcols) : rname(c) = n]]
      nullrow == [c \in Range(right.columns) |-> NullOf(c)]
      isMatch(l) == LET m(r) == r[key] = l[key] IN SelectSeq(right.rows, m)
      rowsFor(l) == LET ms == isMatch(l) IN
                    IF ms = <<>> THEN <<joinrow(l, nullrow)>>
                    ELSE [j \in DOMAIN ms |-> joinrow(l, ms[j])]
  IN [columns |-> [i \in DOMAIN left.columns |-> lname(left.columns[i])] \o
                  [i \in DOMAIN rcols |-> rname(rcols[i])],
      rows |-> Flatten([i \in DOMAIN left.rows |-> rowsFor(left.rows[i])])]

----------------------------------------------------------------------------
(* read_episodes_data.                                                     *)

EpisodeColumns == <<"participant", "episode_type", "episode_date",
                    "certainty", "episode_num", "participant_episode",
                    "begin_date", "end_date">>

\* the five columns kept, under their new names
Relabel(r) == [participant |-> r.ID, episode_type |-> r.episode,
               episode_date |-> r.EndDate, certainty |-> r.Certainty,
               episode_num |-> r.episodeNum]

\* episodes_data[episodes_data.episode_type == episode_type]
SelectEpisodeType(rows, etype) ==
  LET same(r) == r.episode_type = etype IN SelectSeq(rows, same)

\* date + timedelta(days=n) and date - timedelta(days=n)
plus_days(date, n) == date + n
minus_days(date, n) == date - n

\* the table read_episodes_data returns and writes, or the exception it
\* raises: ValueError from strptime on a malformed date, TypeError from
\* timedelta(days=None)
read_episodes_data(file, etype, bday, eday) ==
  LET typed == SelectEpisodeType([i \in DOMAIN file |-> Relabel(file[i])],
                                 etype)
      parsed == [i \in DOMAIN typed |-> dt_converter(typed[i].episode_date)]
      row(i) == [participant |-> typed[i].participant,
                 episode_type |-> typed[i].episode_type,
                 episode_date |-> parsed[i].value,
                 certainty |-> typed[i].certainty,
                 episode_num |-> typed[i].episode_num,
                 participant_episode |->
                   typed[i].participant \o "_" \o typed[i].episode_num,
                 begin_date |-> minus_days(parsed[i].value, bday[1]),
                 end_date |-> plus_days(parsed[i].value, eday[1])]
  IN IF \E i \in DOMAIN parsed : ~parsed[i].ok
     THEN [ok |-> FALSE, error |-> <<"ValueError", "read_episodes_data">>,
           data |-> EmptyFrame]
     ELSE IF bday = None \/ eday = None
     THEN [ok |-> FALSE, error |-> <<"TypeError", "read_episodes_data">>,
           data |-> EmptyFrame]
     ELSE [ok |-> TRUE, error |-> <<>>,
           data |-> [columns |-> EpisodeColumns,
                     rows |-> [i \in DOMAIN typed |-> row(i)]]]

----------------------------------------------------------------------------
(* read_sms_data.                                                          *)

SmsColumns == <<"participant", "date", "time", "comparison_date">>

\* the table read_sms_data returns, or the ValueError strptime raises
read_sms_data(file, etype) ==
  LET out(r) == r.in_out = "out"
      kept == SelectSeq(file, out)
      parsed == [i \in DOMAIN kept |-> strptime_ymd(kept[i].date)]
      row(i) == [participant |-> kept[i].participant,
                 date |-> kept[i].date,
                 time |-> kept[i].time,
                 comparison_date |-> parsed[i].value]
  IN IF \E i \in DOMAIN parsed : ~parsed[i].ok
     THEN [ok |-> FALSE, error |-> <<"ValueError", "read_sms_data">>,
           data |-> EmptyFrame]
     ELSE [ok |-> TRUE, error |-> <<>>,
           data |-> [columns |-> SmsColumns,
                     rows |-> [i \in DOMAIN kept |-> row(i)]]]

----------------------------------------------------------------------------
(* join_episode_data.                                                      *)

\* the window test with the bounds excluded
in_window_strict(r) ==
  /\ r.comparison_date # NaT /\ r.begin_date # NaT /\ r.end_date # NaT
  /\ r.comparison_date > r.begin_date
  /\ r.comparison_date < r.end_date

\* (comparison_date >= begin_date) & (comparison_date <= end_date)
in_window(r) ==
  /\ Ge(r.comparison_date, r.begin_date)
  /\ Le(r.comparison_date, r.end_date)

\* the day difference with the sign lost
relative_days_abs(r) ==
  IF r.comparison_date >= r.episode_date
  THEN r.comparison_date - r.episode_date
  ELSE r.episode_date - r.comparison_date

\* (comparison_date - episode_date).dt.days
relative_days(r) == r.comparison_date - r.episode_date

AddColumn(cols, c) == IF c \in Range(cols) THEN cols ELSE Append(cols, c)

\* the first of the columns cs that the table does not have, as the
\* KeyError of data[c]
MissingColumn(cols, cs) ==
  LET missing(c) == c \notin Range(cols) IN SelectSeq(cs, missing)

\* the table join_episode_data returns and writes, or the KeyError raised
\* by the lookup of a column the merged table does not have
join_episode_data(sms, episodes) ==
  LET merged == merge(sms, episodes, "participant")
      absent == MissingColumn(merged.columns,
                  <<"comparison_date", "begin_date", "end_date",
                    "episode_date">>)
      kept == SelectSeq(merged.rows, in_window)
      row(r) == ("relative_date" :> relative_days(r)) @@ r
  IN IF absent # <<>>
     THEN [ok |-> FALSE, error |-> <<"KeyError", "join_episode_data", absent[1]>>,
           data |-> EmptyFrame]
     ELSE [ok |-> TRUE, error |-> <<>>,
           data |-> [columns |-> AddColumn(merged.columns, "relative_date"),
                     rows |-> [i \in DOMAIN kept |-> row(kept[i])]]]

----------------------------------------------------------------------------
(* groupby(keys).count().reset_index()                                     *)

\* the rows of a table as the set of their positions
Positions(df) == DOMAIN df.rows

\* groupby leaves out the rows with a missing key cell
HasKeys(r, keys) == \A k \in Range(keys) : ~IsNull(k, r[k])

KeyOf(r, keys) == [k \in Range(keys) |-> r[k]]

GroupKeys(df, keys) ==
  {KeyOf(df.rows[i], keys) : i \in {j \in Positions(df) :
                                       HasKeys(df.rows[j], keys)}}

GroupOf(df, keys, g) ==
  {i \in Positions(df) : HasKeys(df.rows[i], keys)
                         /\ KeyOf(df.rows[i], keys) = g}

\* count() of one group and one column: the cells that are not missing
count_of(df, keys, g, c) ==
  Cardinality({i \in GroupOf(df, keys, g) : ~IsNull(c, df.rows[i][c])})

\* one row per group: the key cells, then the count of every other column
count(df, keys) ==
  LET vcols == WithoutCols(df.columns, Range(keys))
  IN [columns |-> keys \o vcols,
      rows |-> {g @@ [c \in Range(vcols) |-> count_of(df, keys, g, c)] :
                  g \in GroupKeys(df, keys)}]

----------------------------------------------------------------------------
(* pivot_dump.                                                             *)

PivotKeys == <<"participant_episode", "relative_date", "certainty">>

\* deindexed.pivot(index='relative_date', columns='participant_episode',
\* values='episode_type'): ValueError when two rows share a cell
HasDuplicateEntries(rows) ==
  \E a \in rows, b \in rows :
    /\ a # b
    /\ a.relative_date = b.relative_date
    /\ a.participant_episode = b.participant_episode

Pivot(rows) ==
  LET idx == {r.relative_date : r \in rows}
      cols == {r.participant_episode : r \in rows}
      at(d, k) == {r \in rows : r.relative_date = d
                                /\ r.participant_episode = k}
  IN [index |-> SortedSeq(idx),
      columns |-> cols,
      cells |-> [c \in idx \X cols |->
                   IF at(c[1], c[2]) = {} THEN FloatNaN
                   ELSE <<(CHOOSE r \in at(c[1], c[2]) : TRUE).episode_type,
                          1>>]]

EmptyPivot == [index |-> <<>>, columns |-> {}, cells |-> <<>>]

\* the two tables pivot_dump writes; when pivot raises, deindexed.csv has
\* been written and pivoted_data.csv has not
pivot_dump(df) ==
  LET counts == count(df, PivotKeys)
  IN IF HasDuplicateEntries(counts.rows)
     THEN [ok |-> FALSE, error |-> <<"ValueError", "pivot_dump">>,
           deindexed |-> counts, pivot |-> EmptyPivot]
     ELSE [ok |-> TRUE, error |-> <<>>,
           deindexed |-> counts, pivot |-> Pivot(counts.rows)]

----------------------------------------------------------------------------
(* aggregate.                                                              *)

AggregateKeys == <<"participant_episode", "relative_date">>

\* np.mean of the cells of column c in the rows G
mean(c, G) ==
  <<Sum([r \in G |-> r[c]], G), Cardinality(G)>>

\* the variance with the population (N) denominator
std_population(c, G) ==
  LET n == Cardinality(G)
      s == Sum([r \in G |-> r[c]], G)
      q == Sum([r \in G |-> r[c] * r[c]], G)
  IN <<n * q - s * s, n * n>>

\* np.std in a pandas aggregate is Series.std, the sample (N - 1)
\* standard deviation, missing for fewer than two cells; here its square
std(c, G) ==
  LET n == Cardinality(G)
      s == Sum([r \in G |-> r[c]], G)
      q == Sum([r \in G |-> r[c] * r[c]], G)
  IN IF n - 1 <= 0 THEN FloatNaN ELSE <<n * q - s * s, n * (n - 1)>>

\* the columns aggregated: every column of the counts but the group key;
\* participant_episode, which is text, is left out of the result
AggregatedColumns(cols) ==
  WithoutCols(cols, {"relative_date", "participant_episode"})

\* the column names after reset_index, droplevel(0) and cols[0] =
\* 'relative_date': one 'mean' and one 'std' per aggregated column
ResetColumns(vcols) ==
  <<"relative_date">> \o Flatten([i \in DOMAIN vcols |-> <<"mean", "std">>])

\* the table aggregate returns and writes
aggregate(df) ==
  LET counts == count(df, AggregateKeys)
      vcols == AggregatedColumns(counts.columns)
      idx == SortedSeq({r.relative_date : r \in counts.rows})
      G(d) == {r \in counts.rows : r.relative_date = d}
      row(d) == <<d>> \o Flatten([i \in DOMAIN vcols |->
                          <<mean(vcols[i], G(d)), std(vcols[i], G(d))>>])
  IN [columns |-> ResetColumns(vcols),
      rows |-> [k \in DOMAIN idx |-> row(idx[k])]]

----------------------------------------------------------------------------
(* The inputs of a run.                                                    *)

EpisodeRow(id, type, date, certainty, num) ==
  [ID |-> id, episode |-> type, EndDate |-> date, Certainty |-> certainty,
   episodeNum |-> num]

MessageRow(participant, in_out, date) ==
  [participant |-> participant, in_out |-> in_out, date |-> date,
   time |-> "09:00"]

\* Rows of the episodes file: two attempts of p1 four days apart, the
\* second with an empty Certainty field; an ideation of p1; an attempt of
\* p2 in the last days of 2019; and a second row for p1's episode 1 with
\* another certainty.
EpisodeRows ==
  {EpisodeRow("p1", "Attempt", <<1, 10, 20>>, "hi", "1"),
   EpisodeRow("p1", "Attempt", <<1, 14, 20>>, NaN, "2"),
   EpisodeRow("p1", "Ideation", <<1, 10, 20>>, "hi", "3"),
   EpisodeRow("p2", "Attempt", <<12, 30, 19>>, "lo", "1"),
   EpisodeRow("p1", "Attempt", <<1, 10, 20>>, "lo", "1")}

\* Rows of the SMS file, around the windows of three days before and five
\* days after the episodes above.
MessageRows ==
  {MessageRow("p1", "out", <<2020, 1, 12>>),
   MessageRow("p1", "out", <<2020, 1, 20>>),
   MessageRow("p1", "out", <<2020, 1, 7>>),
   MessageRow("p1", "out", <<2020, 1, 16>>),
   MessageRow("p2", "out", <<2020, 1, 4>>),
   MessageRow("p1", "in", <<2020, 1, 12>>)}

\* Episode-type codes as typed on the command line
TypeCodes ==
  {<<"a">>, <<"I">>, <<"d">>, <<"P", "o", "s">>, <<"A", "t", "t">>,
   <<"i", "d">>, <<"x">>, <<"x", "a">>, <<"T">>, <<>>}

\* --begin-day / --end-day: any integer (type=int), or absent
DayOptions == {None} \cup {<<n>> : n \in (0 - MaxDays)..MaxDays}

\* Files of the option runs: a plain pair; an episode whose two rows
\* disagree on the certainty; a malformed episode date; a malformed
\* message date.
FilePairs ==
  {[episodes |-> <<EpisodeRow("p1", "Attempt", <<1, 10, 20>>, "hi", "1"),
                   EpisodeRow("p2", "Attempt", <<1, 10, 20>>, NaN, "1")>>,
    sms |-> <<MessageRow("p1", "out", <<2020, 1, 10>>),
              MessageRow("p2", "out", <<2020, 1, 11>>)>>],
   [episodes |-> <<EpisodeRow("p1", "Attempt", <<1, 10, 20>>, "hi", "1"),
                   EpisodeRow("p1", "Attempt", <<1, 10, 20>>, "lo", "1")>>,
    sms |-> <<MessageRow("p1", "out", <<2020, 1, 10>>)>>],
   [episodes |-> <<EpisodeRow("p1", "Attempt", <<2, 30, 20>>, "hi", "1")>>,
    sms |-> <<MessageRow("p1", "out", <<2020, 1, 10>>)>>],
   [episodes |-> <<EpisodeRow("p1", "Attempt", <<1, 10, 20>>, "hi", "1")>>,
    sms |-> <<MessageRow("p1", "out", <<2020, 13, 1>>)>>]}

EmptyCounts == [columns |-> <<>>, rows |-> {}]

Start ==
  /\ pc = "options"
  /\ episode_type = ""
  /\ episodes_data = EmptyFrame
  /\ sms_data = EmptyFrame
  /\ data = EmptyFrame
  /\ deindexed = EmptyCounts
  /\ pivot = EmptyPivot
  /\ reset = EmptyFrame
  /\ files = <<>>
  /\ error = <<>>

\* Runs over the files: -t a -b 3 -e 5 -d true
Init ==
  /\ type_code = <<<<"a">>>>
  /\ begin_day = <<3>>
  /\ end_day = <<5>>
  /\ dump_participants = TRUE
  /\ episodes_file \in SeqUpTo(EpisodeRows, MaxEpisodes)
  /\ input_file \in SeqUpTo(MessageRows, MaxMessages)
  /\ Start

\* Runs over the options
InitOptions ==
  /\ type_code \in {None} \cup {<<c>> : c \in TypeCodes}
  /\ begin_day \in DayOptions
  /\ end_day \in DayOptions
  /\ dump_participants \in BOOLEAN
  /\ \E f \in FilePairs : episodes_file = f.episodes /\ input_file = f.sms
  /\ Start

----------------------------------------------------------------------------
(* main.                                                                   *)

File(name, table) == [name |-> name, table |-> table]

\* click: an absent --episode-type is the default 'a'; the value goes
\* through type=norm_episode_type, whose exception ends the run
ParseOptions ==
  /\ pc = "options"
  /\ LET code == IF type_code = None THEN <<"a">> ELSE type_code[1]
         r == norm_episode_type(code)
     IN /\ episode_type' = r.value
        /\ error' = IF r.ok THEN <<>>
                    ELSE <<"Exception", "norm_episode_type">> \o r.error
        /\ pc' = IF r.ok THEN "read_episodes" ELSE "aborted"
  /\ UNCHANGED <<type_code, begin_day, end_day, dump_participants,
                 episodes_file, input_file, episodes_data, sms_data, data,
                 deindexed, pivot, reset, files>>

ReadEpisodes ==
  /\ pc = "read_episodes"
  /\ LET r == read_episodes_data(episodes_file, episode_type, begin_day,
                                 end_day)
     IN /\ episodes_data' = r.data
        /\ files' = IF r.ok
                    THEN Append(files, File("relabeled_episodes.csv", r.data))
                    ELSE files
        /\ error' = r.error
        /\ pc' = IF r.ok THEN "read_sms" ELSE "aborted"
  /\ UNCHANGED <<type_code, begin_day, end_day, dump_participants,
                 episodes_file, input_file, episode_type, sms_data, data,
                 deindexed, pivot, reset>>

ReadSms ==
  /\ pc = "read_sms"
  /\ LET r == read_sms_data(input_file, episode_type)
     IN /\ sms_data' = r.data
        /\ error' = r.error
        /\ pc' = IF r.ok THEN "join" ELSE "aborted"
  /\ UNCHANGED <<type_code, begin_day, end_day, dump_participants,
                 episodes_file, input_file, episode_type, episodes_data,
                 data, deindexed, pivot, reset, files>>

\* the stage after the Joiner, whatever the flag
after_join_always(dump) == "pivot_dump"

\* if dump_participants: pivot_dump(...)
after_join(dump) == IF dump THEN "pivot_dump" ELSE "aggregate"

Join ==
  /\ pc = "join"
  /\ LET r == join_episode_data(sms_data, episodes_data)
     IN /\ data' = r.data
        /\ files' = IF r.ok
                    THEN Append(files, File("trans_data.csv", r.data))
                    ELSE files
        /\ error' = r.error
        /\ pc' = IF r.ok THEN after_join(dump_participants) ELSE "aborted"
  /\ UNCHANGED <<type_code, begin_day, end_day, dump_participants,
                 episodes_file, input_file, episode_type, episodes_data,
                 sms_data, deindexed, pivot, reset>>

PivotDump ==
  /\ pc = "pivot_dump"
  /\ LET r == pivot_dump(data)
     IN /\ deindexed' = r.deindexed
        /\ pivot' = r.pivot
        /\ files' = IF r.ok
                    THEN files \o <<File("deindexed.csv", r.deindexed),
                                    File("pivoted_data.csv", r.pivot)>>
                    ELSE Append(files, File("deindexed.csv", r.deindexed))
        /\ error' = r.error
        /\ pc' = IF r.ok THEN "aggregate" ELSE "aborted"
  /\ UNCHANGED <<type_code, begin_day, end_day, dump_participants,
                 episodes_file, input_file, episode_type, episodes_data,
                 sms_data, data, reset>>

Aggregate ==
  /\ pc = "aggregate"
  /\ reset' = aggregate(data)
  /\ files' = Append(files, File("reset_data.csv", reset'))
  /\ pc' = "done"
  /\ UNCHANGED <<type_code, begin_day, end_day, dump_participants,
                 episodes_file, input_file, episode_type, episodes_data,
                 sms_data, data, deindexed, pivot, error>>

Next ==
  \/ ParseOptions
  \/ ReadEpisodes
  \/ ReadSms
  \/ Join
  \/ PivotDump
  \/ Aggregate

Spec == Init /\ [][Next]_vars

SpecOptions == InitOptions /\ [][Next]_vars

----------------------------------------------------------------------------
(* What the claims are checked against.                                    *)

\* The whole days from an episode date ('%m/%d/%y') to a message date
\* ('%Y-%m-%d'), read off the calendar for the dates of the files.
Calendar ==
  (<<<<2020, 1, 12>>, <<1, 10, 20>>>> :> 2) @@
  (<<<<2020, 1, 20>>, <<1, 10, 20>>>> :> 10) @@
  (<<<<2020, 1, 7>>, <<1, 10, 20>>>> :> (0 - 3)) @@
  (<<<<2020, 1, 16>>, <<1, 10, 20>>>> :> 6) @@
  (<<<<2020, 1, 4>>, <<1, 10, 20>>>> :> (0 - 6)) @@
  (<<<<2020, 1, 12>>, <<1, 14, 20>>>> :> (0 - 2)) @@
  (<<<<2020, 1, 20>>, <<1, 14, 20>>>> :> 6) @@
  (<<<<2020, 1, 7>>, <<1, 14, 20>>>> :> (0 - 7)) @@
  (<<<<2020, 1, 16>>, <<1, 14, 20>>>> :> 2) @@
  (<<<<2020, 1, 4>>, <<1, 14, 20>>>> :> (0 - 10)) @@
  (<<<<2020, 1, 12>>, <<12, 30, 19>>>> :> 13) @@
  (<<<<2020, 1, 20>>, <<12, 30, 19>>>> :> 21) @@
  (<<<<2020, 1, 7>>, <<12, 30, 19>>>> :> 8) @@
  (<<<<2020, 1, 16>>, <<12, 30, 19>>>> :> 17) @@
  (<<<<2020, 1, 4>>, <<12, 30, 19>>>> :> 5) @@
  (<<<<2020, 1, 10>>, <<1, 10, 20>>>> :> 0) @@
  (<<<<2020, 1, 11>>, <<1, 10, 20>>>> :> 1)

FileNames == [i \in DOMAIN files |-> files[i].name]

\* join_episode_data has returned
Joined == "trans_data.csv" \in Range(FileNames)

\* a joined row is the pair of message m and episode e
IsPair(r, m, e) ==
  /\ \A c \in Range(SmsColumns) : r[c] = m[c]
  /\ \A c \in Range(EpisodeColumns) : r[c] = e[c]

\* the row of the episodes file a joined row comes from
FromEpisode(r, e) ==
  /\ e.ID = r.participant
  /\ e.episode = r.episode_type
  /\ e.episodeNum = r.episode_num
  /\ e.Certainty = r.certainty

C2_RelativeDate ==
  Joined =>
    /\ \A k \in DOMAIN data.rows :
         LET r == data.rows[k] IN
         /\ \A j \in DOMAIN episodes_file :
              FromEpisode(r, episodes_file[j]) =>
                r.relative_date = Calendar[<<r.date, episodes_file[j].EndDate>>]
         /\ r.relative_date < 0 <=> r.comparison_date < r.episode_date
         /\ r.relative_date > 0 <=> r.comparison_date > r.episode_date
         /\ r.date # <<2020, 1, 20>>
    /\ \A i \in DOMAIN input_file, j \in DOMAIN episodes_file :
         LET m == input_file[i]
             e == episodes_file[j]
         IN (/\ m.in_out = "out" /\ m.date = <<2020, 1, 12>>
             /\ e.EndDate = <<1, 10, 20>> /\ e.ID = m.participant
             /\ e.episode = episode_type)
            => \E k \in DOMAIN data.rows :
                 /\ FromEpisode(data.rows[k], e)
                 /\ data.rows[k].date = m.date
                 /\ data.rows[k].relative_date = 2

\* C2's case: the message of 2020-01-12 is two days after one episode and
\* two days before another, and the file has a message of 2020-01-20.
C2_Witness ==
  /\ Joined
  /\ \E k \in DOMAIN data.rows : data.rows[k].relative_date = 2
  /\ \E k \in DOMAIN data.rows : data.rows[k].relative_date = 0 - 2
  /\ \E i \in DOMAIN input_file :
       input_file[i].in_out = "out" /\ input_file[i].date = <<2020, 1, 20>>

\* the rows of the episodes file, of the requested type, whose window
\* holds the date of message m
MatchingEpisodes(m) ==
  {j \in DOMAIN episodes_file :
     /\ episodes_file[j].episode = episode_type
     /\ episodes_file[j].ID = m.participant
     /\ 0 - begin_day[1] <= Calendar[<<m.date, episodes_file[j].EndDate>>]
     /\ Calendar[<<m.date, episodes_file[j].EndDate>>] <= end_day[1]}

\* the output rows that carry message m
Contributed(m) ==
  {k \in DOMAIN data.rows :
     /\ data.rows[k].participant = m.participant
     /\ data.rows[k].date = m.date
     /\ data.rows[k].time = m.time}

\* C5: an outgoing message gives one output row per episode row of the
\* requested type and of its participant whose window holds its date (the
\* rows of equal messages are counted together); nothing is deduplicated.
C5_RowsPerMessage ==
  Joined =>
    \A i \in DOMAIN input_file :
      LET m == input_file[i]
          copies == Cardinality({n \in DOMAIN input_file : input_file[n] = m})
      IN m.in_out = "out" =>
           Cardinality(Contributed(m))
             = copies * Cardinality(MatchingEpisodes(m))

\* C5's case: a message inside two windows, and a row of another type.
C5_Witness ==
  /\ Joined
  /\ \E i \in DOMAIN input_file :
       /\ input_file[i].in_out = "out"
       /\ Cardinality(MatchingEpisodes(input_file[i])) = 2
       /\ Cardinality(Contributed(input_file[i])) = 2
  /\ Len(episodes_file) = MaxEpisodes

\* the output restricted to the columns of the message table
MessageColumnsOf(df) ==
  [columns |-> SmsColumns,
   rows |-> [k \in DOMAIN df.rows |->
               [c \in Range(SmsColumns) |-> df.rows[k][c]]]]

\* how often row r is in a table
Copies(df, r) == Cardinality({k \in DOMAIN df.rows : df.rows[k] = r})

\* the episodes whose window holds the message of output row r
WindowsHolding(r) ==
  {j \in DOMAIN episodes_data.rows :
     /\ episodes_data.rows[j].participant = r.participant
     /\ episodes_data.rows[j].begin_date <= r.comparison_date
     /\ r.comparison_date <= episodes_data.rows[j].end_date}

\* C4 as claimed: join_episode_data run on its own output and the same
\* episode table returns the same rows with the same relative_date, be it
\* run on the output as it is or on its message columns.
C4_Idempotent ==
  Joined =>
    LET again == join_episode_data(data, episodes_data)
        cut == join_episode_data(MessageColumnsOf(data), episodes_data)
    IN \/ again.ok /\ again.data.rows = data.rows
       \/ cut.ok /\ cut.data.rows = data.rows

\* C4 as amended: join_episode_data run on its own output raises
\* KeyError('begin_date'), the merge having renamed the episode columns
\* that both tables have; run on its output cut back to the message
\* columns it returns the same distinct rows, relative_date included, each
\* as often as before times the number of episode windows holding the
\* row's message.
C4_RejoinOnMessageColumns ==
  Joined =>
    LET again == join_episode_data(data, episodes_data)
        cut == join_episode_data(MessageColumnsOf(data), episodes_data)
    IN /\ ~again.ok
       /\ again.error = <<"KeyError", "join_episode_data", "begin_date">>
       /\ cut.ok
       /\ cut.data.columns = data.columns
       /\ Range(cut.data.rows) = Range(data.rows)
       /\ \A r \in Range(data.rows) :
            Copies(cut.data, r)
              = Copies(data, r) * Cardinality(WindowsHolding(r))

\* C4's case: an output with a message inside two windows, whose rows the
\* second run doubles, and a message inside one.
C4_Witness ==
  /\ Joined
  /\ \E r \in Range(data.rows) : Cardinality(WindowsHolding(r)) = 2
  /\ \E r \in Range(data.rows) : Cardinality(WindowsHolding(r)) = 1

\* the code click hands to norm_episode_type
GivenCode == IF type_code = None THEN <<"a">> ELSE type_code[1]

InvalidCode ==
  /\ pc = "aborted"
  /\ error = <<"Exception", "norm_episode_type",
               "Invalid episode type code: ", GivenCode>>
  /\ episode_type = ""

Normalised(name) ==
  /\ episode_type = name
  /\ error # <<>> => error[2] # "norm_episode_type"

C6_WindowHoldsEpisode ==
  \A j \in DOMAIN episodes_data.rows :
    /\ episodes_data.rows[j].begin_date <= episodes_data.rows[j].episode_date
    /\ episodes_data.rows[j].episode_date <= episodes_data.rows[j].end_date

\* the files of a run that ends normally, in the order they are written
OutputFiles(dump) ==
  <<"relabeled_episodes.csv", "trans_data.csv">>
  \o (IF dump THEN <<"deindexed.csv", "pivoted_data.csv">> ELSE <<>>)
  \o <<"reset_data.csv">>

\* the files written when the run is at a stage, or was aborted by it
WrittenBefore(stage) ==
  CASE stage \in {"options", "norm_episode_type", "read_episodes",
                  "read_episodes_data"} -> <<>>
    [] stage \in {"read_sms", "read_sms_data", "join", "join_episode_data"}
         -> <<"relabeled_episodes.csv">>
    [] stage = "pivot_dump"
         -> <<"relabeled_episodes.csv", "trans_data.csv">>
    [] stage = "aggregate"
         -> SubSeq(OutputFiles(dump_participants), 1,
                   Len(OutputFiles(dump_participants)) - 1)
    [] stage = "done" -> OutputFiles(dump_participants)

RowsOn(d) == {k \in DOMAIN data.rows : data.rows[k].relative_date = d}
EpisodesOn(d) == {data.rows[k].participant_episode : k \in RowsOn(d)}
RelativeDates == {data.rows[k].relative_date : k \in DOMAIN data.rows}

\* C7 as claimed: aggregate returns a table of relative_date, mean and
\* standard deviation with one row per relative_date of its input, whose
\* mean is the number of joined rows of that relative_date divided by the
\* number of participant-episodes that have one.
C7_MeanOfDailyCounts ==
  pc = "done" =>
    /\ reset.columns # <<>> /\ reset.columns[1] = "relative_date"
    /\ Range(reset.columns) \subseteq {"relative_date", "mean", "std"}
    /\ Len(reset.rows) = Cardinality(RelativeDates)
    /\ \A k \in DOMAIN reset.rows :
         LET row == reset.rows[k] IN
         /\ row[1] \in RelativeDates
         /\ \A i \in DOMAIN reset.columns :
              reset.columns[i] = "mean" =>
                row[i][1] * Cardinality(EpisodesOn(row[1]))
                  = Cardinality(RowsOn(row[1])) * row[i][2]

\* C8: on a relative_date on which one participant-episode alone has
\* messages the standard deviation is the missing value, not zero, in the
\* table aggregate returns and in the one it writes to reset_data.csv.
C8_SingleObservationStd ==
  pc = "done" =>
    /\ files[Len(files)] = File("reset_data.csv", reset)
    /\ \A d \in RelativeDates : \E k \in DOMAIN reset.rows :
         reset.rows[k][1] = d
    /\ \A k \in DOMAIN reset.rows :
         Cardinality(EpisodesOn(reset.rows[k][1])) = 1 =>
           /\ \E i \in DOMAIN reset.columns : reset.columns[i] = "std"
           /\ \A i \in DOMAIN reset.columns :
                reset.columns[i] = "std" => reset.rows[k][i] = FloatNaN

\* C8's case: one relative_date with a single participant-episode and
\* another with two.
C8_Witness ==
  /\ pc = "done"
  /\ \E d \in RelativeDates : Cardinality(EpisodesOn(d)) = 1
  /\ \E d \in RelativeDates : Cardinality(EpisodesOn(d)) = 2

\* the joined rows of one participant-episode, relative_date and certainty
RowsOf(pe, d, c) ==
  {k \in DOMAIN data.rows : /\ data.rows[k].participant_episode = pe
                            /\ data.rows[k].relative_date = d
                            /\ data.rows[k].certainty = c}

\* C9 as claimed: pivot_dump's grouped counts have, for every
\* (participant_episode, relative_date, certainty) of the joined rows, the
\* number of joined rows of that group, and its wide table has one cell
\* per (relative_date, participant_episode) holding that count.
C9_PivotCounts ==
  "deindexed.csv" \in Range(FileNames) =>
    /\ error = <<>>
    /\ \A k \in DOMAIN data.rows :
         LET r == data.rows[k]
             n == Cardinality(RowsOf(r.participant_episode, r.relative_date,
                                     r.certainty))
             at == <<r.relative_date, r.participant_episode>>
         IN /\ \E g \in deindexed.rows :
                 /\ g.participant_episode = r.participant_episode
                 /\ g.relative_date = r.relative_date
                 /\ g.certainty = r.certainty
                 /\ g.episode_type = n
            /\ at \in DOMAIN pivot.cells
            /\ pivot.cells[at] = <<n, 1>>

====
